---- MODULE Spec2Model ----
(***************************************************************************)
(* State-machine model of App.tsx (kept here as src/unnamed/part_000): the   *)
(* CameraView component, the Viewer component and the App router, and of    *)
(* analyzeImage (src/services/geminiService).                               *)
(*                                                                         *)
(* React is modelled as follows.  Every handler (a click, a promise        *)
(* continuation, an animation-frame callback, a peer event) is one atomic  *)
(* action; the re-render it causes and the effects whose dependencies      *)
(* changed run inside the same action, cleanups first, then the effect     *)
(* bodies in declaration order.  An effect body reads the state values of  *)
(* the render it belongs to; a state setter called by an effect only takes *)
(* hold in the next render.  State setters are no-ops after unmount.       *)
(***************************************************************************)
EXTENDS Integers, Sequences, FiniteSets, TLC

\* ---------------------------------------------------------------- constants
MOTION_SENSITIVITY == 50
COOLDOWN_SECONDS == 10
CooldownMs == COOLDOWN_SECONDS * 1000

\* ------------------------------------------------------------------- bounds
MaxAcq == 3        \* getUserMedia calls over the component's life
MaxCalls == 2      \* inbound peer calls
MaxEvents == 2     \* detection events kept in the list
MaxTicks == 3      \* animation-frame callbacks (each advances the clock)
NumPixels == 2     \* pixels of the (320x240) comparison raster

\* ---------------------------------------------------------- value universes
NoStream == 0
NoFrameId == 0
Null == "null"

StatusParado == "Parado"
StatusMonitorando == "Monitorando..."
StatusMovimento == "Movimento Detectado!"
StatusAnalisando == "Analisando Imagem..."

\* Date.now() at mount: any value of at least one cooldown (epoch milliseconds).
StartTime == CooldownMs
\* Time between two animation-frame callbacks (at least 1 ms: one callback per
\* display frame); two of them straddle the cooldown.
TickDeltas == {CooldownMs \div 2 - 1, CooldownMs \div 2}
MaxNow == StartTime + MaxTicks * (CooldownMs \div 2)

\* A raster is the RGBA byte array getImageData(...).data returns.
Uniform(r, g, b, a) ==
    [i \in 1..(4 * NumPixels) |->
        IF i % 4 = 1 THEN r ELSE IF i % 4 = 2 THEN g ELSE IF i % 4 = 3 THEN b ELSE a]
BlankCanvas == Uniform(0, 0, 0, 0)
FrameDark == Uniform(0, 0, 0, 255)
FrameAtThreshold == Uniform(17, 17, 16, 255)
FrameOverThreshold == Uniform(17, 17, 17, 255)
CameraFrames == {FrameDark, FrameAtThreshold, FrameOverThreshold}

AcquireOutcomes == {"stream", "NotAllowedError", "Error"}
AnalysisOutcomes == {"text", "empty", "Error", "nonError"}

VARIABLES
    mounted,              \* the component is mounted (DOM refs are non-null)
    isMonitoring,         \* useState(false)
    hasCameraPermission,  \* useState(null): "null" | "true" | "false"
    status,               \* useState('Parado')
    error,                \* useState(null)
    peerId,               \* useState(null)
    peerError,            \* useState(null)
    events,               \* useState([]): newest first
    peer,                 \* "importing" | "created" | "open" | "destroyed" | "none"
    hasMediaDevices,      \* navigator.mediaDevices.getUserMedia exists
    acq,                  \* per getUserMedia call: "unused" | "pending" | "failed" | "live" | "stopped"
    mediaStreamRef,       \* useRef(null): index of the held stream, or NoStream
    srcObject,            \* videoRef.current.srcObject
    videoReady,           \* videoRef.current.readyState === 4
    pendingCalls,         \* useRef([])
    nCalls,               \* inbound calls delivered so far
    answered,             \* per call: number of call.answer invocations
    callHow,              \* per call: "none" | "queued" | "immediate" (what the handler did)
    animationFrameId,     \* useRef(null)
    rafPending,           \* scheduled animation-frame callbacks: [id, mon]
    lastDetectionTime,    \* useRef(0)
    now,                  \* Date.now()
    oldCanvas,            \* raster of oldCanvasRef (canvasRef equals it between ticks)
    analyses,             \* analyzeImage calls in flight: [id, mon]
    sessionTicks,         \* ticks past the readyState guard since the last start
    sessionOver,          \* over-threshold ticks since the last start
    sessionLast,          \* time of the last event created since the last start, 0 if none
    isReady,              \* App: useState(false)
    viewPeerId,           \* App: useState(null), then the URL's `view` parameter
    viewerMounted,        \* the Viewer component is mounted
    viewerStatus,         \* Viewer: useState('Conectando a camera...')
    viewerError,          \* Viewer: useState(null)
    viewerPeer,           \* Viewer's peer: "none" | "importing" | "created" | "open" | "destroyed"
    viewerCall,           \* the outbound call: "none" | "calling" | "closed"
    viewerSrcObject,      \* Viewer: videoRef.current.srcObject
    viewerLastEvent,      \* the last Viewer handler that ran
    currentData,          \* drawAndCompare: raster of the current frame
    oldData,              \* drawAndCompare: raster of the previous frame
    diff                  \* drawAndCompare: the accumulated difference, NotCompared before

appVars == <<isReady, viewPeerId>>
viewerVars == <<viewerMounted, viewerStatus, viewerError, viewerPeer, viewerCall,
                viewerSrcObject, viewerLastEvent>>
diffVars == <<currentData, oldData, diff>>

vars == <<mounted, isMonitoring, hasCameraPermission, status, error, peerId, peerError,
          events, peer, hasMediaDevices, acq, mediaStreamRef, srcObject, videoReady,
          pendingCalls, nCalls, answered, callHow, animationFrameId, rafPending,
          lastDetectionTime, now, oldCanvas, analyses, sessionTicks, sessionOver,
          sessionLast, appVars, viewerVars, diffVars>>

\* The whole state as one record, so that the handlers compose as functions.
St == [mounted |-> mounted, isMonitoring |-> isMonitoring,
       hasCameraPermission |-> hasCameraPermission, status |-> status, error |-> error,
       peerId |-> peerId, peerError |-> peerError, events |-> events, peer |-> peer,
       hasMediaDevices |-> hasMediaDevices, acq |-> acq, mediaStreamRef |-> mediaStreamRef,
       srcObject |-> srcObject, videoReady |-> videoReady, pendingCalls |-> pendingCalls,
       nCalls |-> nCalls, answered |-> answered, callHow |-> callHow,
       animationFrameId |-> animationFrameId, rafPending |-> rafPending,
       lastDetectionTime |-> lastDetectionTime, now |-> now, oldCanvas |-> oldCanvas,
       analyses |-> analyses, sessionTicks |-> sessionTicks, sessionOver |-> sessionOver,
       sessionLast |-> sessionLast]

Commit(r) ==
    /\ mounted' = r.mounted
    /\ isMonitoring' = r.isMonitoring
    /\ hasCameraPermission' = r.hasCameraPermission
    /\ status' = r.status
    /\ error' = r.error
    /\ peerId' = r.peerId
    /\ peerError' = r.peerError
    /\ events' = r.events
    /\ peer' = r.peer
    /\ hasMediaDevices' = r.hasMediaDevices
    /\ acq' = r.acq
    /\ mediaStreamRef' = r.mediaStreamRef
    /\ srcObject' = r.srcObject
    /\ videoReady' = r.videoReady
    /\ pendingCalls' = r.pendingCalls
    /\ nCalls' = r.nCalls
    /\ answered' = r.answered
    /\ callHow' = r.callHow
    /\ animationFrameId' = r.animationFrameId
    /\ rafPending' = r.rafPending
    /\ lastDetectionTime' = r.lastDetectionTime
    /\ now' = r.now
    /\ oldCanvas' = r.oldCanvas
    /\ analyses' = r.analyses
    /\ sessionTicks' = r.sessionTicks
    /\ sessionOver' = r.sessionOver
    /\ sessionLast' = r.sessionLast
    /\ UNCHANGED <<appVars, viewerVars, diffVars>>

NotCompared == -1
ViewerConnecting == "Conectando a camera..."

\* CameraView's state and refs after construction.
CameraViewInit ==
    /\ isMonitoring = FALSE
    /\ hasCameraPermission = Null
    /\ status = StatusParado
    /\ error = Null
    /\ peerId = Null
    /\ peerError = Null
    /\ events = <<>>
    /\ peer = "importing"
    /\ hasMediaDevices \in BOOLEAN
    /\ acq = [a \in 1..MaxAcq |-> "unused"]
    /\ mediaStreamRef = NoStream
    /\ srcObject = NoStream
    /\ videoReady = FALSE
    /\ pendingCalls = <<>>
    /\ nCalls = 0
    /\ answered = [c \in 1..MaxCalls |-> 0]
    /\ callHow = [c \in 1..MaxCalls |-> "none"]
    /\ animationFrameId = NoFrameId
    /\ rafPending = {}
    /\ lastDetectionTime = 0
    /\ now = StartTime
    /\ oldCanvas = BlankCanvas
    /\ analyses = {}
    /\ sessionTicks = 0
    /\ sessionOver = 0
    /\ sessionLast = 0

\* Viewer's state and refs after construction (the component is not rendered yet).
ViewerInit ==
    /\ viewerMounted = FALSE
    /\ viewerStatus = ViewerConnecting
    /\ viewerError = Null
    /\ viewerPeer = "none"
    /\ viewerCall = "none"
    /\ viewerSrcObject = NoStream
    /\ viewerLastEvent = "none"

\* No comparison is in progress.
DiffIdle ==
    /\ currentData = BlankCanvas
    /\ oldData = BlankCanvas
    /\ diff = NotCompared

\* The App has read a URL without `view` parameter and rendered CameraView.
Init ==
    /\ mounted = TRUE
    /\ CameraViewInit
    /\ isReady = TRUE
    /\ viewPeerId = Null
    /\ ViewerInit
    /\ DiffIdle

\* ------------------------------------------------------------ state setters
setStatus(r, v) == IF r.mounted THEN [r EXCEPT !.status = v] ELSE r
setError(r, v) == IF r.mounted THEN [r EXCEPT !.error = v] ELSE r
setHasCameraPermission(r, v) == IF r.mounted THEN [r EXCEPT !.hasCameraPermission = v] ELSE r
setEvents(r, v) == IF r.mounted THEN [r EXCEPT !.events = v] ELSE r

\* -------------------------------------------------------- animation frames
FreshFrameId(r) ==
    CHOOSE i \in 1..(Cardinality(r.rafPending) + 2) :
        /\ \A cb \in r.rafPending : cb.id # i
        /\ \A j \in 1..(i - 1) : \E cb \in r.rafPending : cb.id = j

\* animationFrameId.current = requestAnimationFrame(detectionLoop), detectionLoop
\* being the callback of a render in which isMonitoring was `mon`.
requestAnimationFrame(r, mon) ==
    LET i == FreshFrameId(r)
    IN [r EXCEPT !.rafPending = @ \cup {[id |-> i, mon |-> mon]}, !.animationFrameId = i]

\* Mutant of cancelAnimationFrame: the scheduled callback is not cancelled.
cancelAnimationFrame_Noop(r) == r
\* if (animationFrameId.current) cancelAnimationFrame(animationFrameId.current)
cancelAnimationFrame(r) ==
    IF r.animationFrameId # NoFrameId
    THEN [r EXCEPT !.rafPending = {cb \in @ : cb.id # r.animationFrameId}]
    ELSE r

\* ------------------------------------------------------------------ camera
\* Mutant of cleanupCamera: the tracks are stopped but mediaStreamRef keeps the stream.
cleanupCamera_KeepRef(r) ==
    LET r1 == IF r.mediaStreamRef # NoStream
              THEN [r EXCEPT !.acq[r.mediaStreamRef] = "stopped"]
              ELSE r
    IN IF r1.mounted
       THEN [r1 EXCEPT !.srcObject = NoStream, !.videoReady = FALSE]
       ELSE r1
cleanupCamera(r) ==
    LET r1 == IF r.mediaStreamRef # NoStream
              THEN [r EXCEPT !.acq[r.mediaStreamRef] = "stopped"]
              ELSE r
        r2 == IF r1.mounted
              THEN [r1 EXCEPT !.srcObject = NoStream, !.videoReady = FALSE]
              ELSE r1
    IN [r2 EXCEPT !.mediaStreamRef = NoStream]

ErrorText(outcome) ==
    IF outcome = "NotAllowedError" THEN "Permissao para camera negada."
    ELSE IF outcome = "Error" THEN "Erro ao acessar camera"
    ELSE "Ocorreu um erro desconhecido ao acessar a camera."

\* setupCamera, catch block
setupCameraCatch(r, outcome) ==
    cleanupCamera(setHasCameraPermission(setError(r, ErrorText(outcome)), "false"))

AnswerAll(ans, calls) ==
    [c \in DOMAIN ans |->
        ans[c] + Cardinality({i \in 1..Len(calls) : calls[i] = c})]

\* Mutant of setupCameraResume: the queue is not cleared after the calls are answered.
setupCameraResume_NoClear(r, a) ==
    LET r1 == [r EXCEPT !.acq[a] = "live"]
        r2 == IF r1.mounted
              THEN [r1 EXCEPT !.srcObject = a, !.videoReady = FALSE]
              ELSE r1
        r3 == setHasCameraPermission([r2 EXCEPT !.mediaStreamRef = a], "true")
    IN [r3 EXCEPT !.answered = AnswerAll(@, r3.pendingCalls)]

\* setupCamera, after the await of getUserMedia resolved with stream a
setupCameraResume(r, a) ==
    LET r1 == [r EXCEPT !.acq[a] = "live"]
        r2 == IF r1.mounted
              THEN [r1 EXCEPT !.srcObject = a, !.videoReady = FALSE]
              ELSE r1
        r3 == setHasCameraPermission([r2 EXCEPT !.mediaStreamRef = a], "true")
    IN [r3 EXCEPT !.answered = AnswerAll(@, r3.pendingCalls), !.pendingCalls = <<>>]

NextAcq(r) == CHOOSE a \in 1..MaxAcq :
                 r.acq[a] = "unused" /\ \A b \in 1..(a - 1) : r.acq[b] # "unused"

\* setupCamera, up to the await
setupCamera(r) ==
    LET r1 == setError(r, Null)
    IN IF ~r1.hasMediaDevices
       THEN setupCameraCatch(r1, "Error")
       ELSE [r1 EXCEPT !.acq[NextAcq(r1)] = "pending"]

\* ----------------------------------------------------------------- effects
\* useEffect(..., [isMonitoring, setupCamera, cleanupCamera])
cameraEffect(r, isMon) == IF isMon THEN setupCamera(r) ELSE cleanupCamera(r)

\* Mutant of loopEffectStart: lastDetectionTime is not reset.
loopEffectStart_NoReset(r, isMon) ==
    requestAnimationFrame(setStatus(r, StatusMonitorando), isMon)

loopEffectStart(r, isMon) ==
    requestAnimationFrame(
        [setStatus(r, StatusMonitorando) EXCEPT !.lastDetectionTime = 0], isMon)

\* useEffect(..., [isMonitoring, hasCameraPermission, detectionLoop])
loopEffect(r, isMon, perm) ==
    IF isMon /\ perm = "true"
    THEN loopEffectStart(r, isMon)
    ELSE LET r1 == cancelAnimationFrame(r)
         IN IF ~isMon THEN setStatus(r1, StatusParado) ELSE r1

loopEffectCleanup(r) == cancelAnimationFrame(r)

\* Re-render after hasCameraPermission may have changed from `perm`.
RenderPermission(r, perm) ==
    IF r.mounted /\ r.hasCameraPermission # perm
    THEN loopEffect(loopEffectCleanup(r), r.isMonitoring, r.hasCameraPermission)
    ELSE r

\* Re-render after isMonitoring changed: both effects re-run, cleanups first.
RenderMonitoring(r) ==
    LET isMon == r.isMonitoring
        perm == r.hasCameraPermission
        r1 == loopEffectCleanup(cleanupCamera(r))
        r2 == cameraEffect(r1, isMon)
        r3 == loopEffect(r2, isMon, perm)
    IN RenderPermission(r3, perm)

\* ------------------------------------------------------------------ actions
\* const toggleMonitoring = () => setIsMonitoring(prev => !prev)
toggleMonitoring(r) ==
    LET start == ~r.isMonitoring
        r1 == [r EXCEPT !.isMonitoring = start,
                        !.sessionTicks = IF start THEN 0 ELSE @,
                        !.sessionOver = IF start THEN 0 ELSE @,
                        !.sessionLast = IF start THEN 0 ELSE @]
    IN RenderMonitoring(r1)

ToggleMonitoring ==
    /\ mounted
    /\ isMonitoring \/ ~hasMediaDevices \/ \E a \in 1..MaxAcq : acq[a] = "unused"
    /\ Commit(toggleMonitoring(St))

getUserMediaSettled(r, a, outcome) ==
    LET r1 == IF outcome = "stream"
              THEN setupCameraResume(r, a)
              ELSE setupCameraCatch([r EXCEPT !.acq[a] = "failed"], outcome)
    IN RenderPermission(r1, r.hasCameraPermission)

GetUserMediaSettled ==
    \E a \in 1..MaxAcq, outcome \in AcquireOutcomes :
        /\ acq[a] = "pending"
        /\ Commit(getUserMediaSettled(St, a, outcome))

\* The video element reaches readyState 4 for the attached live stream.
VideoCanPlay ==
    /\ mounted
    /\ srcObject # NoStream
    /\ acq[srcObject] = "live"
    /\ ~videoReady
    /\ videoReady' = TRUE
    /\ UNCHANGED <<mounted, isMonitoring, hasCameraPermission, status, error, peerId,
                   peerError, events, peer, hasMediaDevices, acq, mediaStreamRef, srcObject,
                   pendingCalls, nCalls, answered, callHow, animationFrameId, rafPending,
                   lastDetectionTime, now, oldCanvas, analyses, sessionTicks, sessionOver,
                   sessionLast, appVars, viewerVars, diffVars>>

\* Unmount: the refs of the DOM elements become null, the cleanups of the three
\* effects run, and the component's state is discarded (the state variables go
\* back to their initial values: nothing reads them again, the setters are no-ops).
unmount(r) ==
    LET r0 == [r EXCEPT !.mounted = FALSE]
        r1 == IF r0.peer \in {"created", "open"} THEN [r0 EXCEPT !.peer = "destroyed"] ELSE r0
        r2 == loopEffectCleanup(cleanupCamera(r1))
    IN [r2 EXCEPT !.isMonitoring = FALSE, !.hasCameraPermission = Null,
                  !.status = StatusParado, !.error = Null, !.peerId = Null,
                  !.peerError = Null, !.events = <<>>, !.srcObject = NoStream,
                  !.videoReady = FALSE, !.sessionTicks = 0, !.sessionOver = 0,
                  !.sessionLast = 0]

Unmount ==
    /\ mounted
    /\ Commit(unmount(St))

\* ------------------------------------------------------------ peer session
setPeerId(r, v) == IF r.mounted THEN [r EXCEPT !.peerId = v] ELSE r
setPeerError(r, v) == IF r.mounted THEN [r EXCEPT !.peerError = v] ELSE r

\* import('peerjs').then(...)
peerImported(r) ==
    IF ~r.mounted THEN [r EXCEPT !.peer = "none"] ELSE [r EXCEPT !.peer = "created"]

PeerImported ==
    /\ peer = "importing"
    /\ Commit(peerImported(St))

\* peer.on('open', (id) => setPeerId(id))
onPeerOpen(r) == setPeerId([r EXCEPT !.peer = "open"], "id")

PeerOpen ==
    /\ peer = "created"
    /\ Commit(onPeerOpen(St))

\* peer.on('call', (call) => ...)
onPeerCall(r, c) ==
    LET r1 == [r EXCEPT !.nCalls = c]
    IN IF r1.mediaStreamRef # NoStream
       THEN [r1 EXCEPT !.answered[c] = @ + 1, !.callHow[c] = "immediate"]
       ELSE [r1 EXCEPT !.pendingCalls = Append(@, c), !.callHow[c] = "queued"]

PeerCall ==
    /\ peer = "open"
    /\ nCalls < MaxCalls
    /\ Commit(onPeerCall(St, nCalls + 1))

\* Mutant of onPeerError: the error is also shown as the status, as the Viewer does.
onPeerError_SetsStatus(r) == setStatus(setPeerError(r, "Erro de conexao P2P"), "Erro")
\* peer.on('error', (err) => ...)
onPeerError(r) == setPeerError(r, "Erro de conexao P2P")

PeerErrorEvent ==
    /\ peer \in {"created", "open"}
    /\ peerError = Null
    /\ Commit(onPeerError(St))

\* --------------------------------------------------------------- analysis
\* Mutant of analyzeImage: the catch block logs the error and returns nothing.
analyzeImage_NoReturn(outcome) ==
    IF outcome = "text" THEN [rejected |-> FALSE, value |-> "description"]
    ELSE [rejected |-> FALSE, value |-> Null]

\* analyzeImage: what the promise settles with, for each behaviour of the service.
analyzeImage(outcome) ==
    IF outcome = "text" THEN [rejected |-> FALSE, value |-> "description"]
    ELSE IF outcome = "empty"
    THEN [rejected |-> FALSE, value |-> "Erro na analise da IA: resposta vazia ou malformada"]
    ELSE IF outcome = "Error"
    THEN [rejected |-> FALSE, value |-> "Erro na analise da IA: message"]
    ELSE [rejected |-> FALSE, value |-> "Erro desconhecido na analise da IA."]

\* Mutant of MapAnalysis: the id test is missing, every event is updated.
MapAnalysis_All(evs, id, text) ==
    [i \in 1..Len(evs) |-> [evs[i] EXCEPT !.analysis = text, !.isAnalyzing = FALSE]]

\* p.map(e => e.id === id ? { ...e, analysis: text, isAnalyzing: false } : e)
MapAnalysis(evs, id, text) ==
    [i \in 1..Len(evs) |->
        IF evs[i].id = id THEN [evs[i] EXCEPT !.analysis = text, !.isAnalyzing = FALSE]
        ELSE evs[i]]

\* Mutant of handleMotionDetectedResume: a result that arrives after monitoring
\* was stopped is discarded.
handleMotionDetectedResume_DropLate(r, a, res) ==
    IF ~r.isMonitoring THEN [r EXCEPT !.analyses = @ \ {a}]
    ELSE LET text == IF res.rejected THEN "Falha ao analisar a imagem." ELSE res.value
             r1 == setEvents(r, MapAnalysis(r.events, a.id, text))
             r2 == IF a.mon THEN setStatus(r1, StatusMonitorando) ELSE r1
         IN [r2 EXCEPT !.analyses = @ \ {a}]
\* handleMotionDetected, from the await of analyzeImage on
handleMotionDetectedResume(r, a, res) ==
    LET text == IF res.rejected THEN "Falha ao analisar a imagem." ELSE res.value
        r1 == setEvents(r, MapAnalysis(r.events, a.id, text))
        r2 == IF a.mon THEN setStatus(r1, StatusMonitorando) ELSE r1
    IN [r2 EXCEPT !.analyses = @ \ {a}]

AnalysisSettled ==
    \E a \in analyses, outcome \in AnalysisOutcomes :
        Commit(handleMotionDetectedResume(St, a, analyzeImage(outcome)))

\* -------------------------------------------------------- motion detection
Abs(x) == IF x < 0 THEN -x ELSE x

\* for (let i = 0; i < currentData.length; i += 4) diff += |dR| + |dG| + |dB|
RECURSIVE DiffFrom(_, _, _)
DiffFrom(cur, old, i) ==
    IF i >= Len(cur) THEN 0
    ELSE Abs(cur[i + 1] - old[i + 1]) + Abs(cur[i + 2] - old[i + 2])
         + Abs(cur[i + 3] - old[i + 3]) + DiffFrom(cur, old, i + 4)

RECURSIVE DiffFromAlpha(_, _, _)
DiffFromAlpha(cur, old, i) ==
    IF i >= Len(cur) THEN 0
    ELSE Abs(cur[i + 1] - old[i + 1]) + DiffFromAlpha(cur, old, i + 1)
\* Mutant of Diff: the loop steps by one and adds the alpha bytes too.
Diff_WithAlpha(cur, old) == DiffFromAlpha(cur, old, 0)
Diff(cur, old) == DiffFrom(cur, old, 0)

\* diff / (currentData.length / 4) > MOTION_SENSITIVITY
OverThreshold(cur, old) == Diff(cur, old) > MOTION_SENSITIVITY * (Len(cur) \div 4)

\* if (now - lastDetectionTime.current < COOLDOWN_SECONDS * 1000) return
GatePermits(t, last) == ~(t - last < CooldownMs)

\* Mutant of handleMotionDetected: the new event is appended, not prepended.
handleMotionDetected_Append(r, mon) ==
    IF ~GatePermits(r.now, r.lastDetectionTime) THEN r
    ELSE LET newEvent == [id |-> r.now, analysis |-> Null, isAnalyzing |-> TRUE]
             r1 == [r EXCEPT !.lastDetectionTime = r.now, !.sessionLast = r.now]
             r2 == setStatus(setEvents(r1, r1.events \o <<newEvent>>), StatusAnalisando)
         IN [r2 EXCEPT !.analyses = @ \cup {[id |-> r.now, mon |-> mon]}]

\* Mutant of handleMotionDetected: the id is the timestamp cut to a coarser unit.
handleMotionDetected_CoarseId(r, mon) ==
    IF ~GatePermits(r.now, r.lastDetectionTime) THEN r
    ELSE LET newEvent == [id |-> r.now \div CooldownMs, analysis |-> Null, isAnalyzing |-> TRUE]
             r1 == [r EXCEPT !.lastDetectionTime = r.now, !.sessionLast = r.now]
             r2 == setStatus(setEvents(r1, <<newEvent>> \o r1.events), StatusAnalisando)
         IN [r2 EXCEPT !.analyses = @ \cup {[id |-> r.now \div CooldownMs, mon |-> mon]}]
\* handleMotionDetected, up to the await of analyzeImage
handleMotionDetected(r, mon) ==
    IF ~GatePermits(r.now, r.lastDetectionTime) THEN r
    ELSE LET newEvent == [id |-> r.now, analysis |-> Null, isAnalyzing |-> TRUE]
             r1 == [r EXCEPT !.lastDetectionTime = r.now, !.sessionLast = r.now]
             r2 == setStatus(setEvents(r1, <<newEvent>> \o r1.events), StatusAnalisando)
         IN [r2 EXCEPT !.analyses = @ \cup {[id |-> r.now, mon |-> mon]}]

drawAndCompare(r, mon, frame) ==
    IF ~r.mounted \/ ~r.videoReady THEN r
    ELSE LET over == OverThreshold(frame, r.oldCanvas)
             r1 == IF over
                   THEN handleMotionDetected(setStatus(r, StatusMovimento), mon)
                   ELSE r
         IN [r1 EXCEPT !.oldCanvas = frame,
                       !.sessionTicks = @ + 1,
                       !.sessionOver = IF over THEN @ + 1 ELSE @]

\* detectionLoop of a render in which isMonitoring was `mon`
detectionLoop(r, mon, frame) ==
    IF ~mon THEN r
    ELSE requestAnimationFrame(drawAndCompare(r, mon, frame), mon)

DetectionTick ==
    \E cb \in rafPending, d \in TickDeltas, frame \in CameraFrames :
        /\ now + d <= MaxNow
        /\ LET r0 == [St EXCEPT !.rafPending = @ \ {cb}, !.now = now + d]
               r1 == detectionLoop(r0, cb.mon, frame)
           IN /\ Len(r1.events) <= MaxEvents
              /\ Commit(r1)

\* ------------------------------------------------------------------ Viewer
ViewerErro == "Erro"
ViewerConectado == "Conectado"
ViewerDesconectada == "Camera desconectada"
ViewerErroConexao == "Erro de conexao"
NoIdText == "Nenhum ID de camera fornecido."
CallErrorText == "Nao foi possivel conectar a camera."
PeerErrorText == "Erro de conexao P2P. A camera pode estar offline ou o ID ser invalido."

\* What the URL's `view` parameter can be: absent (get returns null), empty, the id
\* of a camera that is online, an id no peer has.
IdEmpty == ""
IdCamera == "camera-id"
IdUnknown == "unknown-id"
ViewParams == {Null, IdEmpty, IdCamera, IdUnknown}
Falsy(id) == id = Null \/ id = IdEmpty
RemoteStream == 1

\* The App before its effect ran: neither component is rendered.
InitApp ==
    /\ mounted = FALSE
    /\ CameraViewInit
    /\ isReady = FALSE
    /\ viewPeerId = Null
    /\ ViewerInit
    /\ DiffIdle

cameraVars == <<isMonitoring, hasCameraPermission, status, error, peerId, peerError,
                events, peer, hasMediaDevices, acq, mediaStreamRef, srcObject, videoReady,
                pendingCalls, nCalls, answered, callHow, animationFrameId, rafPending,
                lastDetectionTime, now, oldCanvas, analyses, sessionTicks, sessionOver,
                sessionLast>>

\* App's effect, and the render that follows:
\* return viewPeerId ? <Viewer peerId={viewPeerId} /> : <CameraView />
\* (mounting the Viewer starts its import of peerjs).
AppReady ==
    \E param \in ViewParams :
        /\ ~isReady
        /\ isReady' = TRUE
        /\ viewPeerId' = param
        /\ IF Falsy(param)
           THEN /\ mounted' = TRUE
                /\ UNCHANGED viewerVars
           ELSE /\ viewerMounted' = TRUE
                /\ viewerPeer' = "importing"
                /\ UNCHANGED <<mounted, viewerStatus, viewerError, viewerCall,
                               viewerSrcObject, viewerLastEvent>>
        /\ UNCHANGED <<cameraVars, diffVars>>

\* import('peerjs').then(...): if (!isMounted) return; const peer = new Peer()
ViewerPeerImported ==
    /\ viewerPeer = "importing"
    /\ viewerPeer' = IF viewerMounted THEN "created" ELSE "none"
    /\ UNCHANGED <<mounted, cameraVars, appVars, diffVars, viewerMounted, viewerStatus,
                   viewerError, viewerCall, viewerSrcObject, viewerLastEvent>>

\* peer.on('open', ...)
ViewerPeerOpen ==
    /\ viewerPeer = "created"
    /\ viewerPeer' = "open"
    /\ IF Falsy(viewPeerId)
       THEN /\ viewerError' = NoIdText
            /\ viewerStatus' = ViewerErro
            /\ viewerLastEvent' = "noId"
            /\ UNCHANGED viewerCall
       ELSE /\ viewerCall' = "calling"
            /\ viewerLastEvent' = "open"
            /\ UNCHANGED <<viewerError, viewerStatus>>
    /\ UNCHANGED <<mounted, cameraVars, appVars, diffVars, viewerMounted, viewerSrcObject>>

\* call.on('stream', ...): only a camera that exists answers with a stream.
ViewerCallStream ==
    /\ viewerMounted
    /\ viewerCall = "calling"
    /\ viewPeerId = IdCamera
    /\ viewerStatus' = ViewerConectado
    /\ viewerError' = Null
    /\ viewerSrcObject' = RemoteStream
    /\ viewerLastEvent' = "stream"
    /\ UNCHANGED <<mounted, cameraVars, appVars, diffVars, viewerMounted, viewerPeer,
                   viewerCall>>

\* call.on('close', ...)
ViewerCallClose ==
    /\ viewerMounted
    /\ viewerCall = "calling"
    /\ viewerCall' = "closed"
    /\ viewerStatus' = ViewerDesconectada
    /\ viewerLastEvent' = "close"
    /\ UNCHANGED <<mounted, cameraVars, appVars, diffVars, viewerMounted, viewerPeer,
                   viewerError, viewerSrcObject>>

\* call.on('error', ...)
ViewerCallError ==
    /\ viewerMounted
    /\ viewerCall = "calling"
    /\ viewerError' = CallErrorText
    /\ viewerStatus' = ViewerErroConexao
    /\ viewerLastEvent' = "callError"
    /\ UNCHANGED <<mounted, cameraVars, appVars, diffVars, viewerMounted, viewerPeer,
                   viewerCall, viewerSrcObject>>

\* peer.on('error', ...): the signaling server cannot be reached, or (type
\* peer-unavailable) no peer has the id that was called.  PeerJS destroys the peer
\* after an error it counts as fatal.
ViewerPeerError ==
    \E fatal \in BOOLEAN :
        /\ viewerMounted
        /\ viewerPeer \in {"created", "open"}
        /\ viewerLastEvent # "peerError"
        /\ viewerError' = PeerErrorText
        /\ viewerStatus' = ViewerErro
        /\ viewerLastEvent' = "peerError"
        /\ viewerPeer' = IF fatal THEN "destroyed" ELSE viewerPeer
        /\ UNCHANGED <<mounted, cameraVars, appVars, diffVars, viewerMounted, viewerCall,
                       viewerSrcObject>>

\* The Viewer's effect cleanup: isMounted = false; peerRef.current?.destroy().  The
\* component's state is discarded with it.
ViewerUnmount ==
    /\ viewerMounted
    /\ viewerMounted' = FALSE
    /\ viewerPeer' = IF viewerPeer \in {"created", "open"} THEN "destroyed" ELSE viewerPeer
    /\ viewerCall' = IF viewerCall = "calling" THEN "closed" ELSE viewerCall
    /\ viewerStatus' = ViewerConnecting
    /\ viewerError' = Null
    /\ viewerSrcObject' = NoStream
    /\ viewerLastEvent' = "none"
    /\ UNCHANGED <<mounted, cameraVars, appVars, diffVars>>

NextViewer ==
    \/ AppReady
    \/ ViewerPeerImported
    \/ ViewerPeerOpen
    \/ ViewerCallStream
    \/ ViewerCallClose
    \/ ViewerCallError
    \/ ViewerPeerError
    \/ ViewerUnmount
\* ------------------------------------------------ the comparison on its own
\* currentData.length / 4
PixelCount(data) == Len(data) \div 4

\* Pixels (R, G, B, A) the compared frames are made of.
PixelSet ==
    {<<0, 0, 0, 255>>, <<17, 17, 17, 255>>, <<17, 17, 17, 0>>, <<34, 34, 34, 255>>,
     <<255, 230, 17, 255>>}
Raster(f) == [i \in 1..(4 * NumPixels) |-> f[((i - 1) \div 4) + 1][((i - 1) % 4) + 1]]
DiffFrames == {Raster(f) : f \in [1..NumPixels -> PixelSet]}

\* drawAndCompare right after the two getImageData calls, on any pair of frames.
InitDiff ==
    /\ mounted = TRUE
    /\ CameraViewInit
    /\ isReady = TRUE
    /\ viewPeerId = Null
    /\ ViewerInit
    /\ currentData \in DiffFrames
    /\ oldData \in DiffFrames \cup {BlankCanvas}
    /\ diff = NotCompared

\* let diff = 0; for (...) diff += ...
CompareFrames ==
    /\ diff = NotCompared
    /\ diff' = Diff(currentData, oldData)
    /\ UNCHANGED <<mounted, cameraVars, appVars, viewerVars, currentData, oldData>>

NextDiff == CompareFrames
Next ==
    \/ ToggleMonitoring
    \/ GetUserMediaSettled
    \/ VideoCanPlay
    \/ DetectionTick
    \/ AnalysisSettled
    \/ PeerImported
    \/ PeerOpen
    \/ PeerCall
    \/ PeerErrorEvent
    \/ Unmount

\* The detection side: the peer handlers write only peer, peerId, peerError,
\* pendingCalls, nCalls, answered and callHow, none of which the other handlers read
\* (setupCamera drains pendingCalls whatever it holds).
NextDetect ==
    \/ ToggleMonitoring
    \/ GetUserMediaSettled
    \/ VideoCanPlay
    \/ DetectionTick
    \/ AnalysisSettled
    \/ Unmount

\* The stream-session side: the detection handlers write neither mediaStreamRef nor
\* any variable of the peer session.
NextPeer ==
    \/ ToggleMonitoring
    \/ GetUserMediaSettled
    \/ PeerImported
    \/ PeerOpen
    \/ PeerCall
    \/ PeerErrorEvent
    \/ Unmount

Spec == Init /\ [][Next]_vars
SpecDetect == Init /\ [][NextDetect]_vars
SpecPeer == Init /\ [][NextPeer]_vars
\* Every analyzeImage call in flight eventually settles.  The last getUserMedia
\* call is left unused, which keeps the behaviour graph small enough for the
\* liveness check.
NextDetectFair ==
    \/ ToggleMonitoring /\ acq'[MaxAcq] = "unused"
    \/ GetUserMediaSettled
    \/ VideoCanPlay
    \/ DetectionTick
    \/ AnalysisSettled
    \/ Unmount
SpecDetectFair == Init /\ [][NextDetectFair]_vars /\ WF_vars(AnalysisSettled)
\* The App started on any URL, and the Viewer it may render.
SpecViewer == InitApp /\ [][NextViewer]_vars
\* The frame comparison applied to every pair of frames.
SpecDiff == InitDiff /\ [][NextDiff]_vars
\* ================================================================== claims
Stopped == ~mounted \/ ~isMonitoring
AcquisitionPending == \E a \in 1..MaxAcq : acq[a] = "pending"
HeldLive == mediaStreamRef # NoStream /\ acq[mediaStreamRef] = "live"
EventCreated == Len(events') = Len(events) + 1
HandleCalled == sessionOver' = sessionOver + 1
FirstTick == sessionTicks = 0 /\ sessionTicks' = 1

\* C1: once monitoring is stopped (toggle or unmount) and no camera acquisition is
\* pending any more, mediaStreamRef holds no stream whose tracks are still running.
C1_SourceReleasedOnStop == (Stopped /\ ~AcquisitionPending) => ~HeldLive

Occurrences(q, c) == Cardinality({i \in 1..Len(q) : q[i] = c})
C2_Inv ==
    \A c \in 1..MaxCalls :
        /\ answered[c] <= 1
        /\ callHow[c] = "none" => (answered[c] = 0 /\ Occurrences(pendingCalls, c) = 0)
        /\ callHow[c] = "immediate" => (answered[c] = 1 /\ Occurrences(pendingCalls, c) = 0)
        /\ (callHow[c] = "queued" /\ answered[c] = 0)
               => (Occurrences(pendingCalls, c) = 1 /\ mediaStreamRef = NoStream)
        /\ (callHow[c] = "queued" /\ answered[c] = 1) => Occurrences(pendingCalls, c) = 0
C2_Step ==
    \A c \in 1..MaxCalls :
        /\ (callHow[c] = "none" /\ callHow'[c] # "none") =>
               IF mediaStreamRef # NoStream
               THEN callHow'[c] = "immediate" /\ answered'[c] = 1
               ELSE callHow'[c] = "queued" /\ answered'[c] = 0
        /\ (callHow[c] = "queued" /\ answered'[c] > answered[c])
               => (mediaStreamRef = NoStream /\ mediaStreamRef' # NoStream)
        /\ (callHow[c] = "queued" /\ answered[c] = 0 /\ mediaStreamRef' # NoStream)
               => answered'[c] = 1
\* C2: a call that arrives while mediaStreamRef is null is queued, stays queued and
\* unanswered while there is no source, and is answered once, in the step in which
\* the source becomes available; a call that arrives while the source is available
\* is answered in the handler and never queued; no call is answered twice.
C2_CallsAnsweredOnce == [](C2_Inv) /\ [][C2_Step]_vars
C2_Witness ==
    /\ callHow[1] = "queued" /\ answered[1] = 1
    /\ callHow[2] = "immediate" /\ answered[2] = 1

C3_GateIff ==
    HandleCalled =>
        /\ (EventCreated /\ lastDetectionTime' = now')
               <=> (now' - lastDetectionTime >= CooldownMs)
        /\ ~(now' - lastDetectionTime >= CooldownMs)
               => (lastDetectionTime' = lastDetectionTime /\ events' = events)
C3_SessionSpacing ==
    (EventCreated /\ sessionLast # 0) => now' - sessionLast >= CooldownMs
\* C3: handleMotionDetected at time now creates an event and sets lastDetectionTime
\* to now exactly when now - lastDetectionTime >= 10 s; a denied call changes neither
\* lastDetectionTime nor the event list; and two events created in one monitoring
\* session (between a start and the next stop) are at least 10 s apart.
C3_CooldownGate == [][C3_GateIff /\ C3_SessionSpacing]_vars
\* The gate taken alone (the first two parts of C3).
C3_GateAlone == [][C3_GateIff]_vars

\* C4: the first over-threshold tick processed after a start is permitted by the
\* gate, however recently an earlier session accepted a trigger.
C4_FirstDetectionPermitted ==
    [][(sessionOver = 0 /\ sessionOver' = 1) => (EventCreated /\ lastDetectionTime' = now')]_vars
C4_Witness ==
    /\ mounted /\ Len(events) = 2 /\ sessionOver = 1
    /\ sessionLast = events[1].id
    /\ events[1].id - events[2].id < CooldownMs

\* C5: the first tick processed after monitoring starts creates no event and raises
\* no motion status.
C5_FirstTickSilent ==
    [][FirstTick => (events' = events /\ status' \notin {StatusMovimento, StatusAnalisando})]_vars

Ids(evs) == [i \in 1..Len(evs) |-> evs[i].id]
C6_NewestFirst ==
    \A i \in 1..Len(events) : \A j \in 1..Len(events) :
        i < j => events[i].id > events[j].id
C6_OrderKept ==
    mounted' =>
        /\ \/ Ids(events') = Ids(events)
           \/ EventCreated /\ Ids(events') = <<now'>> \o Ids(events)
        /\ (HandleCalled /\ lastDetectionTime' = now') => EventCreated
\* C6: the event list is newest-first by creation: every accepted submission
\* prepends exactly one event, and no other step (an analysis settling, in whatever
\* order) changes the order of the list.
C6_EventOrder == [](C6_NewestFirst) /\ [][C6_OrderKept]_vars
C6_Witness ==
    /\ Len(events) = 2
    /\ ~events[1].isAnalyzing /\ events[2].isAnalyzing

EvAt(evs, k) == evs[Len(evs) - k + 1]
InFlight(id) == \E a \in analyses : a.id = id
C7_Inv ==
    mounted =>
        \A k \in 1..Len(events) :
            /\ events[k].isAnalyzing <=> InFlight(events[k].id)
            /\ events[k].isAnalyzing => events[k].analysis = Null
C7_Step ==
    mounted' =>
        \A k \in 1..Len(events) :
            /\ ~EvAt(events, k).isAnalyzing => EvAt(events', k) = EvAt(events, k)
            /\ EvAt(events, k).analysis # Null
                   => EvAt(events', k).analysis = EvAt(events, k).analysis
StillAnalyzing(k) ==
    IF mounted /\ Len(events) >= k THEN EvAt(events, k).isAnalyzing ELSE FALSE
C7_Live == \A k \in 1..MaxEvents : StillAnalyzing(k) ~> ~StillAnalyzing(k)
\* The safety part of C7, which also holds without the fairness condition.
C7_Safe == [](C7_Inv) /\ [][C7_Step]_vars
\* C7: an event is analyzing exactly while its own analyzeImage call is in flight,
\* with analysis null; once isAnalyzing is false the event never changes again
\* (isAnalyzing does not return to true, analysis is not rewritten); and if every
\* call settles, every event of the mounted component ends with isAnalyzing false.
C7_AnalyzingOnce == [](C7_Inv) /\ [][C7_Step]_vars /\ C7_Live
C7_Witness ==
    /\ Len(events) = 2
    /\ ~events[1].isAnalyzing /\ ~events[2].isAnalyzing
    /\ events[1].analysis # events[2].analysis

FailureTexts ==
    {"Erro na analise da IA: resposta vazia ou malformada",
     "Erro na analise da IA: message",
     "Erro desconhecido na analise da IA.",
     "Falha ao analisar a imagem."}
C8_Step ==
    /\ \A o \in AnalysisOutcomes \ {"text"} :
           ~analyzeImage(o).rejected /\ analyzeImage(o).value \in FailureTexts
    /\ \A a \in analyses :
           (mounted' /\ analyses' = analyses \ {a}) =>
               /\ \E i \in 1..Len(events') : events'[i].id = a.id
               /\ \A i \in 1..Len(events') :
                      events'[i].id = a.id =>
                          /\ ~events'[i].isAnalyzing
                          /\ events'[i].analysis \in FailureTexts \cup {"description"}
               /\ UNCHANGED <<rafPending, animationFrameId, lastDetectionTime, isMonitoring,
                              hasCameraPermission, mediaStreamRef, videoReady, oldCanvas>>
\* C8: a failing analysis call settles its event with a failure text and
\* isAnalyzing false; nothing is thrown out of analyzeImage; and the settling
\* leaves the detection loop (scheduled tick, cooldown, monitoring flag) untouched.
C8_FailureRecorded == [][C8_Step]_vars
C8_Witness ==
    /\ Len(events) = 2
    /\ events[2].analysis \in FailureTexts
    /\ events[1].isAnalyzing
    /\ rafPending # {}

AcquisitionFailed == \E a \in 1..MaxAcq : acq[a] = "pending" /\ acq'[a] = "failed"
\* C9: once a failed camera acquisition has been handled, isMonitoring is false and
\* the status is 'Parado'.
C9_FailureStops ==
    [][(AcquisitionFailed /\ mounted) => (~isMonitoring' /\ status' = StatusParado)]_vars

\* C10: status 'Monitorando...' with a detection tick scheduled implies that
\* mediaStreamRef holds a live stream.
C10_MonitoringHasSource ==
    (mounted /\ status = StatusMonitorando /\ rafPending # {}) => HeldLive

TickRan == now' # now
\* C11: at most one tick is scheduled at a time; while monitoring is stopped (or the
\* component is unmounted) no tick is scheduled, also while analyzeImage calls of
\* earlier frames are in flight; and a tick (the only step that captures, compares
\* or submits a frame) runs only while monitoring is on.
C11_TickCancelledOnStop ==
    /\ [](Cardinality(rafPending) <= 1 /\ (Stopped => rafPending = {}))
    /\ [][TickRan => (mounted /\ isMonitoring /\ isMonitoring')]_vars
    /\ [][(Stopped /\ ~isMonitoring')
             => (oldCanvas' = oldCanvas /\ Len(events') <= Len(events)
                 /\ analyses' \subseteq analyses /\ lastDetectionTime' = lastDetectionTime)]_vars
C11_Witness ==
    /\ mounted /\ ~isMonitoring
    /\ analyses # {}
    /\ animationFrameId # NoFrameId /\ rafPending = {}
    /\ sessionTicks >= 2

Settled(a) == analyses' = analyses \ {a}
AnalysisTexts == FailureTexts \cup {"description"}
\* C12: when an analyzeImage call settles while monitoring is stopped (and the
\* component is mounted), its event is still in the list and takes the result:
\* analysis is the returned text and isAnalyzing is false.
C12_LateResultApplied ==
    [][\A a \in analyses :
          (Settled(a) /\ mounted' /\ ~isMonitoring) =>
              \E i \in 1..Len(events) :
                  /\ events[i].id = a.id /\ events[i].isAnalyzing
                  /\ events'[i].id = a.id /\ ~events'[i].isAnalyzing
                  /\ events'[i].analysis \in AnalysisTexts]_vars
\* A result was applied after the stop: only a call that settles late leaves
\* 'Monitorando...' behind while isMonitoring is false.
C12_Witness ==
    /\ mounted /\ ~isMonitoring /\ status = StatusMonitorando
    /\ analyses = {}
    /\ Len(events) >= 1
    /\ ~events[1].isAnalyzing /\ events[1].analysis \in AnalysisTexts

C13_UniqueIds ==
    /\ \A i \in 1..Len(events) : \A j \in 1..Len(events) :
           i # j => events[i].id # events[j].id
    /\ \A a \in analyses : \A b \in analyses : a.id = b.id => a = b
C13_OthersKept ==
    \A a \in analyses :
        (Settled(a) /\ mounted') =>
            /\ Len(events') = Len(events)
            /\ Cardinality({i \in 1..Len(events) : events'[i] # events[i]}) = 1
            /\ \A i \in 1..Len(events) :
                   events[i].id # a.id => events'[i] = events[i]
\* C13: no two events of the list share an id, whichever sessions created them, and
\* a settling analyzeImage call changes exactly one event, the one with its id: all
\* other events keep their analysis, isAnalyzing and position.
C13_OwnEventOnly == [](C13_UniqueIds) /\ [][C13_OthersKept]_vars
C13_Witness ==
    /\ Len(events) = 2
    /\ events[1].analysis = "description" /\ ~events[1].isAnalyzing
    /\ events[2].analysis = Null /\ events[2].isAnalyzing
    /\ events[1].id - events[2].id < CooldownMs

C14_Released ==
    (~mounted /\ ~AcquisitionPending) =>
        /\ \A a \in 1..MaxAcq : acq[a] # "live"
        /\ mediaStreamRef = NoStream
        /\ peer \notin {"created", "open"}
C14_NoAnswer == ~mounted => answered' = answered
\* C14: after unmount the signaling session is destroyed, no queued call is answered
\* any more, and once no camera acquisition is in flight no stream is live and
\* mediaStreamRef is null.
C14_TeardownDropsCalls == [](C14_Released) /\ [][C14_NoAnswer]_vars
\* The part of C14 that does not depend on an acquisition in flight at unmount.
C14_SessionDestroyed == ~mounted => peer \notin {"created", "open"}
\* The part of C14 about the queued calls alone.
C14_QueuedCallsDropped == [][C14_NoAnswer]_vars

ReleasedBefore == \E a \in 1..MaxAcq : acq[a] = "stopped"
Arrives(c) == callHow[c] = "none" /\ callHow'[c] # "none"
C15_Inv == HeldLive => pendingCalls = <<>>
C15_Step ==
    \A c \in 1..MaxCalls :
        /\ (Arrives(c) /\ ReleasedBefore /\ ~HeldLive) =>
               /\ callHow'[c] = "queued" /\ answered'[c] = 0
               /\ pendingCalls' = Append(pendingCalls, c)
        /\ (callHow[c] = "queued" /\ answered[c] = 0 /\ ReleasedBefore
            /\ ~HeldLive /\ HeldLive') =>
               (answered'[c] = 1 /\ pendingCalls' = <<>>)
\* C15: after a stream has been released, a call that arrives while no live stream
\* is held is appended to pendingCalls and not answered; it is answered in the step
\* in which a live stream is next held; and whenever a live stream is held
\* pendingCalls is empty.
C15_QueueAfterRelease == [](C15_Inv) /\ [][C15_Step]_vars
C15_Witness ==
    /\ callHow[1] = "immediate" /\ answered[1] = 1
    /\ acq[1] = "stopped"
    /\ callHow[2] = "queued" /\ answered[2] = 1
    /\ acq[2] = "live" /\ mediaStreamRef = 2

PeerErrorHandled == peerError = Null /\ peerError' # Null
\* C16: the handler of the peer's 'error' event changes peerError and nothing else:
\* isMonitoring, status, the scheduled tick, lastDetectionTime, the stream, the queue
\* of calls and the event list are as before, in whatever state the event arrives.
C16_PeerErrorOnlyNotice ==
    /\ []([onPeerError(St) EXCEPT !.peerError = peerError] = St)
    /\ [][PeerErrorHandled =>
             UNCHANGED <<mounted, isMonitoring, hasCameraPermission, status, error, peerId,
                         events, peer, hasMediaDevices, acq, mediaStreamRef, srcObject,
                         videoReady, pendingCalls, nCalls, answered, callHow,
                         animationFrameId, rafPending, lastDetectionTime, now, oldCanvas,
                         analyses, sessionTicks, sessionOver, sessionLast, appVars,
                         viewerVars, diffVars>>]_vars
C16_Witness ==
    /\ peerError # Null
    /\ mounted /\ isMonitoring /\ status = StatusMonitorando
    /\ rafPending # {} /\ HeldLive

ViewerShown == <<viewerStatus, viewerError>>
ViewerErrors == {Null, NoIdText, CallErrorText, PeerErrorText}
\* What the Viewer shows after each of the causes (and after a stream arrived).
ShownBy(cause) ==
    IF cause = "noId" THEN {<<ViewerErro, NoIdText>>}
    ELSE IF cause = "callError" THEN {<<ViewerErroConexao, CallErrorText>>}
    ELSE IF cause = "close" THEN {<<ViewerDesconectada, e>> : e \in ViewerErrors}
    ELSE {<<ViewerConectado, Null>>}
ViewerCauses == {"noId", "callError", "close", "stream"}
C17_Distinct ==
    \A c1 \in ViewerCauses : \A c2 \in ViewerCauses :
        c1 # c2 => ShownBy(c1) \cap ShownBy(c2) = {}
C17_CauseShown ==
    viewerLastEvent \in ViewerCauses => ViewerShown \in ShownBy(viewerLastEvent)
C17_NoIdReported ==
    (isReady /\ viewPeerId = IdEmpty) =>
        /\ ~mounted
        /\ viewerPeer = "open" => ViewerShown \in ShownBy("noId")
C17_UnknownId ==
    viewPeerId = IdUnknown =>
        /\ viewerSrcObject = NoStream
        /\ viewerStatus # ViewerConectado
        /\ viewerLastEvent \in {"callError", "peerError"} =>
               (viewerError # Null /\ viewerStatus \in {ViewerErro, ViewerErroConexao})
\* C17: a view request without identifier, a call error and a remote hang-up each
\* leave the Viewer showing a (status, error) pair that none of the other two and
\* not the connected state can show; a request for an id no peer has never attaches
\* a stream and shows an error status with an error text once the failure is reported.
C17_ViewerFailures == C17_Distinct /\ C17_CauseShown /\ C17_NoIdReported /\ C17_UnknownId
\* C17 without the request that has no identifier.
C17_OtherCauses == C17_Distinct /\ C17_CauseShown /\ C17_UnknownId
\* The Viewer's branch for a missing identifier never runs.
C17_NoIdBranchDead == viewerLastEvent # "noId"

PixelDist(cur, old, p) ==
    Abs(cur[4 * p - 3] - old[4 * p - 3]) + Abs(cur[4 * p - 2] - old[4 * p - 2])
    + Abs(cur[4 * p - 1] - old[4 * p - 1])
RECURSIVE SumPixels(_, _, _)
SumPixels(cur, old, n) ==
    IF n = 0 THEN 0 ELSE PixelDist(cur, old, n) + SumPixels(cur, old, n - 1)
UniformlyApart(cur, old, D) ==
    \A p \in 1..NumPixels : \A ch \in 1..3 :
        Abs(cur[4 * (p - 1) + ch] - old[4 * (p - 1) + ch]) = D
AlphaDiffers(cur, old) == \E p \in 1..NumPixels : cur[4 * p] # old[4 * p]
\* C18: the score of two frames is diff / pixel count, where diff is the sum over
\* the pixels of |dR| + |dG| + |dB| (alpha is not read): diff is 0 for frames with
\* equal colours, and 3 * D * pixel count (score 3 * D) for frames that are D apart
\* in every colour channel of every pixel.
C18_FrameDifference ==
    diff # NotCompared =>
        /\ PixelCount(currentData) = NumPixels
        /\ diff = SumPixels(currentData, oldData, NumPixels)
        /\ currentData = oldData => diff = 0
        /\ \A D \in 0..255 :
               UniformlyApart(currentData, oldData, D)
                   => diff = 3 * D * PixelCount(currentData)
C18_Witness ==
    /\ diff # NotCompared
    /\ AlphaDiffers(currentData, oldData)
    /\ \E D \in 1..255 :
           /\ UniformlyApart(currentData, oldData, D)
           /\ diff = 3 * D * NumPixels

TickProcessed == sessionTicks' = sessionTicks + 1
TickOver == sessionOver' = sessionOver + 1
Submitted == EventCreated /\ \E a \in analyses' \ analyses : a.id = now'
C19_Step ==
    TickProcessed =>
        /\ TickOver <=> OverThreshold(oldCanvas', oldCanvas)
        /\ Submitted <=> (TickOver /\ GatePermits(now', lastDetectionTime))
        /\ ~Submitted =>
               /\ events' = events /\ analyses' = analyses
               /\ status' = status
               /\ lastDetectionTime' = lastDetectionTime
\* C19: a processed tick submits the frame exactly when its score is above 50 and
\* the gate permits; any other processed tick creates no event and leaves status and
\* lastDetectionTime as they were; in both cases the previous-frame buffer then
\* holds the frame that was compared.
C19_TickSubmitsOrNothing == [][C19_Step]_vars
\* C19 without the status: what a tick that does not submit leaves alone.
C19_NoSubmitKeepsEvents ==
    [][TickProcessed =>
          /\ Submitted <=> (TickOver /\ GatePermits(now', lastDetectionTime))
          /\ ~Submitted => (events' = events /\ analyses' = analyses
                            /\ lastDetectionTime' = lastDetectionTime)
          /\ (~TickOver) => status' = status]_vars

LiveStreams == {a \in 1..MaxAcq : acq[a] = "live"}
\* C20: at most one stream obtained from getUserMedia has running tracks at any
\* time, and a stream with running tracks is the one mediaStreamRef references (so
\* that the next cleanupCamera stops it).
C20_OneLiveStream ==
    /\ Cardinality(LiveStreams) <= 1
    /\ \A a \in LiveStreams : mediaStreamRef = a

\* C21: while the component is mounted and isMonitoring is false, the status is
\* 'Parado': no callback that runs after the stop (an analyzeImage call settling, a
\* getUserMedia call settling) changes it.
C21_StoppedShowsParado == (mounted /\ ~isMonitoring) => status = StatusParado
\* The only step that takes a stopped session away from 'Parado' is an analyzeImage
\* call settling.
C21_OnlyLateAnalysis ==
    [][(mounted /\ ~isMonitoring /\ mounted' /\ ~isMonitoring'
        /\ status = StatusParado /\ status' # status)
          => \E a \in analyses : Settled(a) /\ a.mon /\ status' = StatusMonitorando]_vars
====
